---- MODULE Spec2Model ----
(***************************************************************************)
(* A model of gwinferno/cosmology.py: class Cosmology, its distance table  *)
(* (the columns self.z, self.Dc, self.Vc), the integration loop of extend  *)
(* and the interpolation queries.                                          *)
(*                                                                         *)
(* Numbers.  The program computes in floating point.  The model computes   *)
(* in fixed point: the integer x stands for the real x / SCALE, every      *)
(* operation rounds its exact result to the nearest representable value    *)
(* (as IEEE arithmetic does), a result whose magnitude exceeds FMax is an  *)
(* infinity, and the special values PInf, NInf and NaN follow the IEEE     *)
(* rules (NaN compares false with everything, inf - inf = NaN, x / 0 =     *)
(* +-inf, sqrt of a negative number = NaN).  Lengths are in units of       *)
(* c * (1 time unit), so that c is 1.                                      *)
(***************************************************************************)
EXTENDS Integers, Sequences, FiniteSets, TLC

----------------------------------------------------------------------------
(* Bounds of the model *)

\* the fixed-point resolution: 1.0 is SCALE
SCALE == 100
\* the largest finite magnitude (FMax * SCALE stays a machine integer)
FMax == 20000000
\* the longest table the model lets extend build
MaxLen == 6

----------------------------------------------------------------------------
(* Floating-point values and operations *)

PInf == FMax + 1
NInf == -PInf
NaN == FMax + 2

IsNaN(x) == x = NaN
IsInf(x) == x = PInf \/ x = NInf
IsFin(x) == ~IsNaN(x) /\ ~IsInf(x)

Abs(x) == IF x < 0 THEN -x ELSE x
Sgn(x) == IF x < 0 THEN -1 ELSE IF x > 0 THEN 1 ELSE 0

\* an exact result brought back into the finite range, or to an infinity
Rnd(x) == IF x > FMax THEN PInf ELSE IF x < -FMax THEN NInf ELSE x

\* n / d rounded to the nearest integer, n >= 0, d > 0
RDiv(n, d) == IF 2 * (n % d) >= d THEN n \div d + 1 ELSE n \div d

\* Each operation binds its operands before it combines them, so that an
\* operand is evaluated once: NegOf, AddOf, ... work on the values bound.
NegOf(a) == IF IsNaN(a) THEN NaN ELSE -a
Neg(a) == CHOOSE r \in {NegOf(x) : x \in {a}} : TRUE

AddOf(a, b) ==
    IF IsNaN(a) \/ IsNaN(b) THEN NaN
    ELSE IF IsInf(a) THEN (IF IsInf(b) /\ b # a THEN NaN ELSE a)
    ELSE IF IsInf(b) THEN b
    ELSE Rnd(a + b)
Add(a, b) == CHOOSE r \in {AddOf(x, y) : x \in {a}, y \in {b}} : TRUE

Sub(a, b) == Add(a, Neg(b))

\* the largest product of two magnitudes the model forms exactly
MulLimit == FMax * SCALE

MulOf(a, b) ==
    IF IsNaN(a) \/ IsNaN(b) THEN NaN
    ELSE IF IsInf(a) \/ IsInf(b)
         THEN (IF a = 0 \/ b = 0 THEN NaN
               ELSE IF Sgn(a) * Sgn(b) > 0 THEN PInf ELSE NInf)
    ELSE IF a = 0 \/ b = 0 THEN 0
    ELSE IF Abs(a) > MulLimit \div Abs(b)
         THEN (IF Sgn(a) * Sgn(b) > 0 THEN PInf ELSE NInf)
    ELSE Rnd(Sgn(a) * Sgn(b) * RDiv(Abs(a) * Abs(b), SCALE))
Mul(a, b) == CHOOSE r \in {MulOf(x, y) : x \in {a}, y \in {b}} : TRUE

DivOf(a, b) ==
    IF IsNaN(a) \/ IsNaN(b) THEN NaN
    ELSE IF IsInf(a)
         THEN (IF IsInf(b) THEN NaN
               ELSE IF (a > 0) = (b >= 0) THEN PInf ELSE NInf)
    ELSE IF IsInf(b) THEN 0
    ELSE IF b = 0
         THEN (IF a = 0 THEN NaN ELSE IF a > 0 THEN PInf ELSE NInf)
    ELSE Rnd(Sgn(a) * Sgn(b) * RDiv(Abs(a) * SCALE, Abs(b)))
Div(a, b) == CHOOSE r \in {DivOf(x, y) : x \in {a}, y \in {b}} : TRUE

\* the comparisons: false as soon as an operand is NaN
Less(a, b) == ~IsNaN(a) /\ ~IsNaN(b) /\ a < b
Greater(a, b) == Less(b, a)
Leq(a, b) == ~IsNaN(a) /\ ~IsNaN(b) /\ a <= b
Geq(a, b) == Leq(b, a)

\* the largest r in lo..hi with r * r <= n, given lo * lo <= n < (hi+1) * (hi+1)
RECURSIVE ISqrtIn(_, _, _)
ISqrtIn(n, lo, hi) ==
    IF lo >= hi THEN lo
    ELSE CHOOSE r \in {IF mid <= m \div mid THEN ISqrtIn(m, mid, h)
                       ELSE ISqrtIn(m, l, mid - 1) :
                           m \in {n}, l \in {lo}, h \in {hi},
                           mid \in {(lo + hi + 1) \div 2}} : TRUE

\* x ** 0.5
SqrtOf(a) ==
    IF IsNaN(a) \/ a < 0 THEN NaN
    ELSE IF a = PInf THEN PInf
    ELSE LET n == a * SCALE
             r == ISqrtIn(n, 0, n)
         IN  IF n - r * r > r THEN r + 1 ELSE r
Sqrt(a) == CHOOSE r \in {SqrtOf(x) : x \in {a}} : TRUE

Pow2(a) == Mul(a, a)
Pow3(a) == Mul(Mul(a, a), a)
Pow4(a) == Mul(Mul(Mul(a, a), a), a)

\* the largest e with x >= SCALE * 2^e, for x >= SCALE
RECURSIVE Log2Floor(_)
Log2Floor(x) == IF x < 2 * SCALE THEN 0 ELSE 1 + Log2Floor(x \div 2)

\* the smallest k with x * 2^k >= SCALE, for 0 < x
RECURSIVE Log2Lift(_)
Log2Lift(x) == IF x >= SCALE THEN 0 ELSE 1 + Log2Lift(2 * x)

RECURSIVE TwoTo(_)
TwoTo(e) == IF e = 0 THEN 1 ELSE 2 * TwoTo(e - 1)

\* e * ln 2
LnTwoTimes(e) == Sgn(e) * RDiv(Abs(e) * 69315 * SCALE, 100000)

\* ln m for SCALE <= m < 2 * SCALE: 2 * atanh((m - 1) / (m + 1)), by its series
LnMantissa(m) ==
    LET t  == Div(m - SCALE, m + SCALE)
        t2 == Mul(t, t)
        t3 == Mul(t, t2)
        t5 == Mul(t3, t2)
    IN  2 * (t + RDiv(t3, 3) + RDiv(t5, 5))

\* the natural logarithm
LnOf(a) ==
    IF IsNaN(a) \/ a < 0 THEN NaN
    ELSE IF a = 0 THEN NInf
    ELSE IF a = PInf THEN PInf
    ELSE IF a >= SCALE
         THEN LET e == Log2Floor(a)
              IN  LnTwoTimes(e) + LnMantissa(RDiv(a, TwoTo(e)))
    ELSE LET k == Log2Lift(a)
         IN  LnMantissa(a * TwoTo(k)) - LnTwoTimes(k)
Ln(a) == CHOOSE r \in {LnOf(x) : x \in {a}} : TRUE

----------------------------------------------------------------------------
(* Module constants, in the model's units *)

\* C_CGS: the speed of light, 1 length unit per time unit
C_CGS == SCALE
\* MPC_CGS: the length of the large unit in base units
MPC_CGS == 2 * SCALE
\* 4 * jnp.pi
FourPi == RDiv(1256637 * SCALE, 100000)
\* the literal 0.5 of the trapezoidal rule
Half == SCALE \div 2
\* the literal 1.0
One == SCALE

----------------------------------------------------------------------------
(* State *)

VARIABLES
    obj,            \* "none": no object yet; "live": __init__ returned
    raised,         \* the exception the latest call raised, "" when none
    Ho, c_over_Ho, unit_mod,
    OmegaMatter, OmegaRadiation, OmegaLambda, OmegaKappa,
    self_z, self_Dc, self_Vc,   \* the table's columns
    th,             \* per thread: the frame of its call of extend
    ret,            \* the latest completed query: what was asked, what returned
    posdz,          \* history: every call of extend so far passed dz > 0
    callers,        \* history: the threads that have called extend
    torn            \* history: a query has read z and Dc of different lengths

params == <<Ho, c_over_Ho, unit_mod, OmegaMatter, OmegaRadiation, OmegaLambda, OmegaKappa>>
table == <<self_z, self_Dc, self_Vc>>
hist == <<posdz, callers, torn>>
vars == <<obj, raised, params, table, th, ret, hist>>

Threads == {1, 2}
Main == 1

\* a thread that is not inside extend
IdleFrame ==
    [pc |-> "idle", z |-> 0, Dc |-> 0, Vc |-> 0, DL |-> 0,
     max_DL |-> NInf, max_Dc |-> NInf, max_z |-> NInf, max_Vc |-> NInf,
     dz |-> 0, tmp |-> <<>>, n0 |-> 0]

NoRet == [op |-> "none", arg |-> 0, arg2 |-> 0, val |-> 0, from |-> NaN]

Last(s) == s[Len(s)]

----------------------------------------------------------------------------
(* Closed-form functions *)

\* z2E, with the parameters given
E(ol, ok, om, orad, zz) ==
    LET one_plus_z == Add(One, zz)
    IN  Sqrt(Add(Add(Add(ol, Mul(ok, Pow2(one_plus_z))),
                     Mul(om, Pow3(one_plus_z))),
                 Mul(orad, Pow4(one_plus_z))))

z2E(zz) == E(OmegaLambda, OmegaKappa, OmegaMatter, OmegaRadiation, zz)

dDcdz(zz, mpc) ==
    LET dDc == Div(c_over_Ho, z2E(zz))
    IN  IF mpc THEN Div(dDc, MPC_CGS) ELSE dDc

----------------------------------------------------------------------------
(* Interpolation: jnp.interp(x, xp, fp) *)

IsSorted(xp) == \A k \in 1..(Len(xp) - 1) : Leq(xp[k], xp[k + 1])

\* searchsorted(xp, x, side='right'): the number of knots <= x when xp is
\* sorted (a NaN sorts last); on an unsorted xp the result of the binary
\* search is not specified
SearchSorted(xp, x) ==
    IF IsSorted(xp)
    THEN {IF IsNaN(x) THEN Len(xp)
          ELSE Cardinality({k \in 1..Len(xp) : xp[k] <= x})}
    ELSE 0..Len(xp)

\* clip(c, lo, hi) = minimum(maximum(c, lo), hi)
Clip(c, lo, hi) ==
    LET m == IF c < lo THEN lo ELSE c
    IN  IF m > hi THEN hi ELSE m

\* s[k] with Python's index k: 0-based, a negative k counts from the end
At(s, k) == IF k < 0 THEN s[Len(s) + k + 1] ELSE s[k + 1]

\* the values jnp.interp may return for the segment ending at index i
\* the segment's value without the clamp above the last knot
InterpAt_NoRightClamp(x, xp, fp, i) ==
    LET df    == Sub(At(fp, i), At(fp, i - 1))
        dx    == Sub(At(xp, i), At(xp, i - 1))
        delta == Sub(x, At(xp, i - 1))
        f     == IF dx = 0
                 THEN {At(fp, i - 1), At(fp, i)}
                 ELSE {Add(At(fp, i - 1), Mul(Div(delta, dx), df))}
    IN  IF Less(x, xp[1]) THEN {fp[1]} ELSE f

InterpAt(x, xp, fp, i) ==
    LET df    == Sub(At(fp, i), At(fp, i - 1))
        dx    == Sub(At(xp, i), At(xp, i - 1))
        delta == Sub(x, At(xp, i - 1))
        f     == IF dx = 0
                 THEN {At(fp, i - 1), At(fp, i)}
                 ELSE {Add(At(fp, i - 1), Mul(Div(delta, dx), df))}
    IN  IF Greater(x, Last(xp)) THEN {Last(fp)}
        ELSE IF Less(x, xp[1]) THEN {fp[1]}
        ELSE f

Interp(x, xp, fp) ==
    UNION {InterpAt(x, xp, fp, Clip(c, 1, Len(xp) - 1)) : c \in SearchSorted(xp, x)}

----------------------------------------------------------------------------
(* The table's queries, as functions of the state *)

\* whether numpy can combine two columns elementwise
Broadcastable(a, b) == Len(a) = Len(b) \/ Len(a) = 1 \/ Len(b) = 1

\* the property DL: self.Dc * (1 + self.z)
DLof(zs, Dcs) ==
    LET n == IF Len(zs) > Len(Dcs) THEN Len(zs) ELSE Len(Dcs)
    IN  [i \in 1..n |->
            Mul(IF Len(Dcs) = 1 THEN Dcs[1] ELSE Dcs[i],
                Add(One, IF Len(zs) = 1 THEN zs[1] ELSE zs[i]))]

DL == DLof(self_z, self_Dc)

\* whether jnp.interp accepts xp and fp
InterpOk(xp, fp) == Len(xp) = Len(fp)

z2Dc(zz) == Interp(zz, self_z, self_Dc)

\* the inverse lookup without the conversion to base units
DL2z_NoUnit(d) == Interp(d, DL, self_z)

DL2z(d) == Interp(Mul(d, unit_mod), DL, self_z)

z2DL(zz) == {Div(v, unit_mod) : v \in Interp(zz, self_z, DL)}

\* jnp.where(Dc, Dc, self.z2Dc(z)): Dc when it is not zero
DcOrTable(zz, dc) == IF dc # 0 THEN {dc} ELSE z2Dc(zz)

\* 4 * jnp.pi * Dc**2 * self.dDcdz(z), Dc chosen
VolumeElement(zz, d) == Mul(Mul(FourPi, Pow2(d)), dDcdz(zz, FALSE))

dVcdz(zz, dc) == {VolumeElement(zz, d) : d \in DcOrTable(zz, dc)}

logdVcdz(zz, dc) ==
    {Sub(Add(Add(Ln(FourPi), Mul(2 * One, Ln(d))), Ln(dDcdz(zz, FALSE))),
         Mul(3 * One, Ln(unit_mod))) : d \in DcOrTable(zz, dc)}

----------------------------------------------------------------------------
(* Inputs *)

\* the arguments of __init__: <<Ho, omega_matter, omega_radiation, omega_lambda, unit>>
CtorSet ==
    { <<One, (3 * One) \div 10, 0, One - (3 * One) \div 10, "mpc">>,
      <<One, (3 * One) \div 10, 0, One - (3 * One) \div 10, "cm">>,
      <<2 * One, One, 0, 0, "mpc">>,
      <<One, 0, 0, One, "cm">>,
      <<One, 0, One, 0, "cm">>,
      <<One, -One, 0, 2 * One, "cm">>,
      <<-One, (3 * One) \div 10, 0, One - (3 * One) \div 10, "cm">>,
      <<0, (3 * One) \div 10, 0, One - (3 * One) \div 10, "mpc">>,
      <<One, (3 * One) \div 10, 0, (8 * One) \div 10, "mpc">>,
      <<One, (3 * One) \div 10, 0, (6 * One) \div 10, "cm">> }

\* the bounds of a call of extend: <<max_DL, max_Dc, max_z, max_Vc>>
BoundSet ==
    { <<NInf, NInf, NInf, NInf>>,
      <<NInf, NInf, -One, NInf>>,
      <<NInf, NInf, Half, NInf>>,
      <<NInf, NInf, One, NInf>>,
      <<NInf, Half, NInf, NInf>>,
      <<NInf, 8 * One, NInf, NInf>>,
      <<One, NInf, NInf, NInf>>,
      <<NInf, NInf, NInf, One>>,
      <<NInf, NInf, NInf, 5000 * One>>,
      <<NInf, Half, Half, NInf>>,
      <<One, Half, One, One>> }

DzSet == {-Half, 0, Half, 5 * One}

QueryZ  == {-Half, 0, One \div 4, One, 5 * One}
QueryDL == {-Half, 0, Half, 20 * One}
QueryDc == {0, Half}
\* the arguments of the closed-form queries
QueryE  == {0, One}

----------------------------------------------------------------------------
(* Construction: Cosmology.__init__ *)

Init ==
    /\ obj = "none"
    /\ raised = ""
    /\ Ho = 0 /\ c_over_Ho = 0 /\ unit_mod = 0
    /\ OmegaMatter = 0 /\ OmegaRadiation = 0 /\ OmegaLambda = 0 /\ OmegaKappa = 0
    /\ self_z = <<>> /\ self_Dc = <<>> /\ self_Vc = <<>>
    /\ th = [t \in Threads |-> IdleFrame]
    /\ ret = NoRet
    /\ posdz = TRUE
    /\ callers = {}
    /\ torn = FALSE

\* the curvature __init__ computes
Kappa(om, orad, ol) == Sub(One, Add(Add(om, orad), ol))

\* what __init__ raises, "" when it returns
InitRaises(ho, om, orad, ol) ==
    IF ho = 0 THEN "ZeroDivisionError"
    ELSE IF Kappa(om, orad, ol) # 0 THEN "AssertionError"
    ELSE ""

Construct(ho, om, orad, ol, unit) ==
    /\ obj = "none"
    /\ raised' = InitRaises(ho, om, orad, ol)
    /\ IF raised' # ""
       THEN UNCHANGED <<obj, params, table>>
       ELSE /\ obj' = "live"
            /\ Ho' = ho
            /\ c_over_Ho' = Div(C_CGS, ho)
            /\ unit_mod' = (IF unit = "mpc" THEN MPC_CGS ELSE One)
            /\ OmegaMatter' = om
            /\ OmegaRadiation' = orad
            /\ OmegaLambda' = ol
            /\ OmegaKappa' = Kappa(om, orad, ol)
            /\ self_z' = <<0>>
            /\ self_Dc' = <<0>>
            /\ self_Vc' = <<0>>
    /\ UNCHANGED <<th, ret, hist>>

----------------------------------------------------------------------------
(* extend, statement by statement; a frame's pc names the line to run next *)

\* the loop test without its last disjunct
Cond_WithoutVc(f) ==
    \/ Less(f.Dc, f.max_Dc)
    \/ Less(f.DL, f.max_DL)
    \/ Less(f.z, f.max_z)

\* the loop test with "not greater" in place of "less"
Cond_Leq(f) ==
    \/ Leq(f.Dc, f.max_Dc)
    \/ Leq(f.DL, f.max_DL)
    \/ Leq(f.z, f.max_z)
    \/ Leq(f.Vc, f.max_Vc)

\* the loop condition of line 68
Cond(f) ==
    \/ Less(f.Dc, f.max_Dc)
    \/ Less(f.DL, f.max_DL)
    \/ Less(f.z, f.max_z)
    \/ Less(f.Vc, f.max_Vc)

ExtendCall(t, mDL, mDc, mz, mVc, d) ==
    /\ obj = "live"
    /\ th[t].pc = "idle"
    /\ th' = [th EXCEPT ![t] =
                [IdleFrame EXCEPT !.pc = "L63", !.max_DL = mDL, !.max_Dc = mDc,
                                  !.max_z = mz, !.max_Vc = mVc, !.dz = d,
                                  !.n0 = Len(self_z)]]
    /\ posdz' = (posdz /\ d > 0)
    /\ callers' = callers \cup {t}
    /\ UNCHANGED torn
    /\ ret' = NoRet
    /\ raised' = ""
    /\ UNCHANGED <<obj, params, table>>

\* z = self.z[-1]
L63(t) ==
    /\ th[t].pc = "L63"
    /\ th' = [th EXCEPT ![t].z = Last(self_z), ![t].pc = "L64"]
    /\ UNCHANGED <<obj, raised, params, table, ret, hist>>

\* Dc = self.Dc[-1]
L64(t) ==
    /\ th[t].pc = "L64"
    /\ th' = [th EXCEPT ![t].Dc = Last(self_Dc), ![t].pc = "L65"]
    /\ UNCHANGED <<obj, raised, params, table, ret, hist>>

\* Vc = self.Vc[-1]; DL = Dc * (1 + z)
L65(t) ==
    /\ th[t].pc = "L65"
    /\ th' = [th EXCEPT ![t].Vc = Last(self_Vc),
                        ![t].DL = Mul(th[t].Dc, Add(One, th[t].z)),
                        ![t].pc = "L68"]
    /\ UNCHANGED <<obj, raised, params, table, ret, hist>>

\* the loop test: into the body, or out of extend
L68(t) ==
    /\ th[t].pc = "L68"
    /\ th' = [th EXCEPT ![t] = IF Cond(th[t]) THEN [@ EXCEPT !.pc = "L69"]
                               ELSE IdleFrame]
    /\ UNCHANGED <<obj, raised, params, table, ret, hist>>

\* lines 69-78 for the locals z, Dc, Vc and the step dz, with tab and new_tab
\* what z2Dc returns at z and at new_z: the new z, Dc, Vc, DL
\* the step with the distance increment subtracted
Trapezoid_SignSlip(zz, dc, vc, d, tab, new_tab) ==
    LET dDc       == dDcdz(zz, FALSE)
        dVc       == VolumeElement(zz, IF dc # 0 THEN dc ELSE tab)
        new_z     == Add(zz, d)
        new_dDc   == dDcdz(new_z, FALSE)
        new_Dc    == Sub(dc, Mul(Mul(Half, Add(dDc, new_dDc)), d))
        new_dVc   == VolumeElement(new_z, IF new_Dc # 0 THEN new_Dc ELSE new_tab)
        new_Vc    == Add(vc, Mul(Mul(Half, Add(dVc, new_dVc)), d))
        new_DL    == Mul(Add(One, new_z), new_Dc)
    IN  [z |-> new_z, Dc |-> new_Dc, Vc |-> new_Vc, DL |-> new_DL]

\* the step that leaves z where it was
Trapezoid_NoAdvance(zz, dc, vc, d, tab, new_tab) ==
    LET dDc       == dDcdz(zz, FALSE)
        dVc       == VolumeElement(zz, IF dc # 0 THEN dc ELSE tab)
        new_z     == zz
        new_dDc   == dDcdz(new_z, FALSE)
        new_Dc    == Add(dc, Mul(Mul(Half, Add(dDc, new_dDc)), d))
        new_dVc   == VolumeElement(new_z, IF new_Dc # 0 THEN new_Dc ELSE new_tab)
        new_Vc    == Add(vc, Mul(Mul(Half, Add(dVc, new_dVc)), d))
        new_DL    == Mul(Add(One, new_z), new_Dc)
    IN  [z |-> new_z, Dc |-> new_Dc, Vc |-> new_Vc, DL |-> new_DL]

\* lines 69-76: one trapezoid step from (zz, dc, vc) with step d; tab and
\* new_tab are the values z2Dc returns at zz and at zz + d
Trapezoid(zz, dc, vc, d, tab, new_tab) ==
    LET dDc       == dDcdz(zz, FALSE)
        dVc       == VolumeElement(zz, IF dc # 0 THEN dc ELSE tab)
        new_z     == Add(zz, d)
        new_dDc   == dDcdz(new_z, FALSE)
        new_Dc    == Add(dc, Mul(Mul(Half, Add(dDc, new_dDc)), d))
        new_dVc   == VolumeElement(new_z, IF new_Dc # 0 THEN new_Dc ELSE new_tab)
        new_Vc    == Add(vc, Mul(Mul(Half, Add(dVc, new_dVc)), d))
        new_DL    == Mul(Add(One, new_z), new_Dc)
    IN  [z |-> new_z, Dc |-> new_Dc, Vc |-> new_Vc, DL |-> new_DL]

\* the body up to the rebinding of the locals; dVcdz evaluates z2Dc, which
\* raises when the columns it reads differ in length
L69(t) ==
    /\ th[t].pc = "L69"
    /\ Len(self_z) < MaxLen
    /\ IF ~InterpOk(self_z, self_Dc)
       THEN /\ th' = [th EXCEPT ![t] = IdleFrame]
            /\ raised' = "ValueError"
       ELSE /\ \E tab \in z2Dc(th[t].z) :
               \E new_tab \in z2Dc(Add(th[t].z, th[t].dz)) :
                  \E new \in {Trapezoid(th[t].z, th[t].Dc, th[t].Vc, th[t].dz,
                                        tab, new_tab)} :
                     th' = [th EXCEPT ![t].z = new.z, ![t].Dc = new.Dc,
                                      ![t].Vc = new.Vc, ![t].DL = new.DL,
                                      ![t].pc = "L80"]
            /\ UNCHANGED raised
    /\ UNCHANGED <<obj, params, table, ret, hist>>

\* the new sample put in front of the column
L80_Prepend(t) ==
    /\ th[t].pc = "L80"
    /\ th' = [th EXCEPT ![t].tmp = <<th[t].z>> \o self_z, ![t].pc = "L80s"]
    /\ UNCHANGED <<obj, raised, params, table, ret, hist>>

\* self.z = np.append(self.z, z): the new array is built ...
L80(t) ==
    /\ th[t].pc = "L80"
    /\ th' = [th EXCEPT ![t].tmp = Append(self_z, th[t].z), ![t].pc = "L80s"]
    /\ UNCHANGED <<obj, raised, params, table, ret, hist>>

\* ... and bound to self.z
L80s(t) ==
    /\ th[t].pc = "L80s"
    /\ self_z' = th[t].tmp
    /\ th' = [th EXCEPT ![t].tmp = <<>>, ![t].pc = "L81"]
    /\ UNCHANGED <<obj, raised, params, self_Dc, self_Vc, ret, hist>>

\* self.Dc = np.append(self.Dc, Dc)
L81(t) ==
    /\ th[t].pc = "L81"
    /\ th' = [th EXCEPT ![t].tmp = Append(self_Dc, th[t].Dc), ![t].pc = "L81s"]
    /\ UNCHANGED <<obj, raised, params, table, ret, hist>>

\* the new Dc column dropped instead of bound
L81s_NoStore(t) ==
    /\ th[t].pc = "L81s"
    /\ th' = [th EXCEPT ![t].tmp = <<>>, ![t].pc = "L82"]
    /\ UNCHANGED <<obj, raised, params, table, ret, hist>>

\* ... and bound to self.Dc
L81s(t) ==
    /\ th[t].pc = "L81s"
    /\ self_Dc' = th[t].tmp
    /\ th' = [th EXCEPT ![t].tmp = <<>>, ![t].pc = "L82"]
    /\ UNCHANGED <<obj, raised, params, self_z, self_Vc, ret, hist>>

\* self.Vc = np.append(self.Vc, Vc)
L82(t) ==
    /\ th[t].pc = "L82"
    /\ th' = [th EXCEPT ![t].tmp = Append(self_Vc, th[t].Vc), ![t].pc = "L82s"]
    /\ UNCHANGED <<obj, raised, params, table, ret, hist>>

L82s(t) ==
    /\ th[t].pc = "L82s"
    /\ self_Vc' = th[t].tmp
    /\ th' = [th EXCEPT ![t].tmp = <<>>, ![t].pc = "L68"]
    /\ UNCHANGED <<obj, raised, params, self_z, self_Dc, ret, hist>>

\* one statement of thread t's call of extend
ExtendStep(t) ==
    \/ L63(t) \/ L64(t) \/ L65(t) \/ L68(t) \/ L69(t)
    \/ L80(t) \/ L80s(t) \/ L81(t) \/ L81s(t) \/ L82(t) \/ L82s(t)

----------------------------------------------------------------------------
(* Queries: a thread that is not inside extend calls a query, with a NumPy  *)
(* scalar as its argument                                                   *)

CanQuery(t) == obj = "live" /\ th[t].pc = "idle"

\* the call returns v
Answer(op, a, a2, v, src) ==
    /\ ret' = [op |-> op, arg |-> a, arg2 |-> a2, val |-> v, from |-> src]
    /\ raised' = ""

\* the call raises
Throw(e) ==
    /\ ret' = NoRet
    /\ raised' = e

Query_z2Dc(t, x) ==
    /\ CanQuery(t)
    /\ IF InterpOk(self_z, self_Dc)
       THEN \E v \in z2Dc(x) : Answer("z2Dc", x, 0, v, NaN)
       ELSE Throw("ValueError")
    /\ torn' = (torn \/ Len(self_z) # Len(self_Dc))
    /\ UNCHANGED <<obj, params, table, th, posdz, callers>>

Query_z2DL(t, x) ==
    /\ CanQuery(t)
    /\ IF Broadcastable(self_z, self_Dc) /\ InterpOk(self_z, DL)
       THEN \E v \in z2DL(x) : Answer("z2DL", x, 0, v, NaN)
       ELSE Throw("ValueError")
    /\ torn' = (torn \/ Len(self_z) # Len(self_Dc))
    /\ UNCHANGED <<obj, params, table, th, posdz, callers>>

\* DL2z of d; src is the z whose z2DL the caller passes on, NaN when none
Query_DL2z(t, d, src) ==
    /\ CanQuery(t)
    /\ IF Broadcastable(self_z, self_Dc) /\ InterpOk(DL, self_z)
       THEN \E v \in DL2z(d) : Answer("DL2z", d, 0, v, src)
       ELSE Throw("ValueError")
    /\ torn' = (torn \/ Len(self_z) # Len(self_Dc))
    /\ UNCHANGED <<obj, params, table, th, posdz, callers>>

Query_z2E(t, x) ==
    /\ CanQuery(t)
    /\ Answer("z2E", x, 0, z2E(x), NaN)
    /\ UNCHANGED <<obj, params, table, th, hist>>

Query_dDcdz(t, x, mpc) ==
    /\ CanQuery(t)
    /\ Answer("dDcdz", x, IF mpc THEN 1 ELSE 0, dDcdz(x, mpc), NaN)
    /\ UNCHANGED <<obj, params, table, th, hist>>

Query_dVcdz(t, x, dc) ==
    /\ CanQuery(t)
    /\ IF InterpOk(self_z, self_Dc)
       THEN \E v \in dVcdz(x, dc) : Answer("dVcdz", x, dc, v, NaN)
       ELSE Throw("ValueError")
    /\ torn' = (torn \/ Len(self_z) # Len(self_Dc))
    /\ UNCHANGED <<obj, params, table, th, posdz, callers>>

Query_logdVcdz(t, x, dc) ==
    /\ CanQuery(t)
    /\ IF InterpOk(self_z, self_Dc)
       THEN \E v \in logdVcdz(x, dc) : Answer("logdVcdz", x, dc, v, NaN)
       ELSE Throw("ValueError")
    /\ torn' = (torn \/ Len(self_z) # Len(self_Dc))
    /\ UNCHANGED <<obj, params, table, th, posdz, callers>>

\* the distances a caller passes to DL2z: its own, or the latest z2DL's result
Query(t) ==
    \/ \E x \in QueryZ : Query_z2Dc(t, x)
    \/ \E x \in QueryZ : Query_z2DL(t, x)
    \/ \E d \in QueryDL : Query_DL2z(t, d, NaN)
    \/ ret.op = "z2DL" /\ Query_DL2z(t, ret.val, ret.arg)
    \/ \E x \in QueryE : Query_z2E(t, x)
    \/ \E x \in QueryE, mpc \in BOOLEAN : Query_dDcdz(t, x, mpc)
    \/ \E x \in QueryE, dc \in QueryDc : Query_dVcdz(t, x, dc)
    \/ \E x \in QueryE, dc \in QueryDc : Query_logdVcdz(t, x, dc)

----------------------------------------------------------------------------
(* The program: one thread constructs the object, extends and queries *)

Next ==
    \/ \E a \in CtorSet : Construct(a[1], a[2], a[3], a[4], a[5])
    \/ \E b \in BoundSet, d \in DzSet : ExtendCall(Main, b[1], b[2], b[3], b[4], d)
    \/ ExtendStep(Main)
    \/ Query(Main)

Spec == Init /\ [][Next]_vars

\* the object, the calls and the query of the two-thread runs
CtorConc == {a \in CtorSet : a[1] = One /\ a[2] > 0 /\ a[3] = 0 /\ a[4] = One - a[2] /\ a[5] = "cm"}
BoundConc == {b \in BoundSet : b[3] = One /\ b[1] = NInf /\ b[2] = NInf /\ b[4] = NInf}
DzConc == {d \in DzSet : d = Half}
QueryConc == {x \in QueryZ : 0 < x /\ x < Half}

\* two threads share one object with no lock: each calls extend once and
\* queries when it is not inside extend, and their statements interleave
NextConc ==
    \/ \E a \in CtorConc : Construct(a[1], a[2], a[3], a[4], a[5])
    \/ \E t \in Threads \ callers, b \in BoundConc, d \in DzConc :
          ExtendCall(t, b[1], b[2], b[3], b[4], d)
    \/ \E t \in Threads : ExtendStep(t)
    \/ \E t \in Threads, x \in QueryConc : Query_z2Dc(t, x)

SpecConc == Init /\ [][NextConc]_vars

\* the constructions and calls of the runs that decide whether extend returns
CtorTerm == {a \in CtorSet : a[1] = One /\ a[5] = "cm"}
BoundTerm == {b \in BoundSet : Cardinality({i \in 1..4 : b[i] # NInf}) = 1}

\* construction and extend alone
NextTerm ==
    \/ \E a \in CtorTerm : Construct(a[1], a[2], a[3], a[4], a[5])
    \/ \E b \in BoundTerm, d \in DzSet : ExtendCall(Main, b[1], b[2], b[3], b[4], d)
    \/ ExtendStep(Main)

\* a call in progress keeps running: the interpreter executes the loop's next
\* statement
TermSpec == Init /\ [][NextTerm]_vars /\ WF_vars(ExtendStep(Main))

----------------------------------------------------------------------------
(* Vocabulary of the properties *)

\* the main thread's frame
fr == th[Main]

\* thread t is at the loop test that ends its call: its next step returns
Returning(t) == th[t].pc = "L68" /\ ~Cond(th[t])

\* a parameter set the specification calls valid
Valid ==
    /\ obj = "live"
    /\ Ho > 0
    /\ OmegaMatter >= 0 /\ OmegaRadiation >= 0 /\ OmegaLambda >= 0

EqualLengths == Len(self_z) = Len(self_Dc) /\ Len(self_Dc) = Len(self_Vc)

\* (1+z)^4, the largest term of E's radicand, is finite at every tabulated z
Representable == \A k \in 1..Len(self_z) : IsFin(Pow4(Add(One, self_z[k])))

\* a valid parameter set, positive steps only, and no overflow so far
WellFormed == Valid /\ posdz /\ Representable

\* a bound is met by v: it was not specified, or v >= bound
Meets(v, bound) == bound = NInf \/ Geq(v, bound)

\* sample i of the table meets every bound of frame f
MeetsAll(f, i) ==
    /\ Meets(self_z[i], f.max_z)
    /\ Meets(self_Dc[i], f.max_Dc)
    /\ Meets(Mul(self_Dc[i], Add(One, self_z[i])), f.max_DL)
    /\ Meets(self_Vc[i], f.max_Vc)

\* sample i of the table is below some bound of frame f
FailsSome(f, i) ==
    \/ Less(self_z[i], f.max_z)
    \/ Less(self_Dc[i], f.max_Dc)
    \/ Less(Mul(self_Dc[i], Add(One, self_z[i])), f.max_DL)
    \/ Less(self_Vc[i], f.max_Vc)

\* each bound of frame f is met by sample i, or the value compared is NaN
MeetsOrNaN(f, i) ==
    LET DLi == Mul(self_Dc[i], Add(One, self_z[i]))
    IN  /\ Meets(self_z[i], f.max_z)
        /\ Meets(self_Dc[i], f.max_Dc) \/ IsNaN(self_Dc[i])
        /\ Meets(DLi, f.max_DL) \/ IsNaN(DLi)
        /\ Meets(self_Vc[i], f.max_Vc) \/ IsNaN(self_Vc[i])

StrictlyIncreasing(s) == \A k \in 1..(Len(s) - 1) : Less(s[k], s[k + 1])
NonDecreasing(s) == \A k \in 1..(Len(s) - 1) : Leq(s[k], s[k + 1])

IsPrefix(s, u) == Len(s) <= Len(u) /\ \A k \in 1..Len(s) : u[k] = s[k]

\* max_z is the only bound frame f specifies
OnlyMaxZ(f) ==
    f.max_z # NInf /\ f.max_DL = NInf /\ f.max_Dc = NInf /\ f.max_Vc = NInf

----------------------------------------------------------------------------
(* C1 *)

\* C1, as stated: whenever a call of extend returns, the table's last sample
\* meets every bound that was specified
C1_AsStated ==
    (Valid /\ Returning(Main)) => EqualLengths /\ MeetsAll(fr, Len(self_z))

\* C1, amended: whenever a call of extend returns, every specified bound is met
\* by the table's last sample or the value compared with it is NaN (the
\* comparisons of the loop test are false on NaN, so a NaN ends the loop); for
\* a valid parameter set, positive steps and no overflow of (1+z)^4 no NaN
\* arises and every specified bound is met
C1_BoundsMetOnReturn ==
    Returning(Main) =>
        /\ EqualLengths
        /\ MeetsOrNaN(fr, Len(self_z))
        /\ WellFormed => MeetsAll(fr, Len(self_z))

\* a call with two bounds returns; the sample before the last met max_z, not max_Dc
C1_Witness ==
    /\ Returning(Main) /\ WellFormed
    /\ fr.max_z # NInf /\ fr.max_Dc # NInf
    /\ Len(self_z) > fr.n0 + 1
    /\ Geq(self_z[Len(self_z) - 1], fr.max_z)
    /\ Less(self_Dc[Len(self_Dc) - 1], fr.max_Dc)

----------------------------------------------------------------------------
(* C2 *)

\* the main thread is in the loop body and has not yet rebound self.z: the
\* table's last sample is the one the loop test looked at
BeforeAppend == fr.pc \in {"L69", "L80", "L80s"}

\* a call on a fresh table, max_z the only bound, dz > 0, is about to return
FreshMaxZCallReturns ==
    Returning(Main) /\ fr.n0 = 1 /\ OnlyMaxZ(fr) /\ fr.dz > 0

\* z_last is within one step above max_z
WithinOneStep == 
    /\ Leq(fr.max_z, Last(self_z))
    /\ Less(Last(self_z), Add(fr.max_z, fr.dz))

\* C2 (b), as stated: a call on a fresh table with max_z as the only bound and
\* dz > 0 ends with max_z <= z_last < max_z + dz
C2_AsStated == FreshMaxZCallReturns => WithinOneStep

\* during a call that found every bound met by the last sample, no step
\* changes the table
NoOpCall ==
    (fr.pc # "idle" /\ Len(self_z) >= fr.n0 /\ ~FailsSome(fr, fr.n0))
        => table' = table

\* C2, amended: extend appends a sample only when the current last sample is
\* below at least one specified bound; a call whose bounds the last sample
\* already meets leaves z, Dc and Vc unchanged in length and content; a call
\* on a fresh table with max_z > -dz as the only bound and dz > 0 ends with
\* max_z <= z_last < max_z + dz (with max_z <= -dz it is a no-op and z_last
\* stays 0)
C2_AppendOnlyWhenUnmet ==
    /\ [](BeforeAppend => (EqualLengths /\ FailsSome(fr, Len(self_z))))
    /\ [][NoOpCall]_vars
    /\ []((FreshMaxZCallReturns /\ Greater(Add(fr.max_z, fr.dz), 0)) => WithinOneStep)
    /\ []((FreshMaxZCallReturns /\ Leq(Add(fr.max_z, fr.dz), 0))
            => (Len(self_z) = 1 /\ Last(self_z) = 0))

\* a call on a fresh table with only max_z returns, having stepped past max_z
C2_Witness ==
    /\ FreshMaxZCallReturns
    /\ Len(self_z) >= 2
    /\ Less(fr.max_z, Last(self_z))

----------------------------------------------------------------------------
(* C3 *)

\* the samples are strictly increasing in z and non-decreasing in Dc, in Vc
\* and in DL = Dc * (1 + z)
Monotone ==
    /\ StrictlyIncreasing(self_z)
    /\ NonDecreasing(self_Dc)
    /\ NonDecreasing(self_Vc)
    /\ EqualLengths => NonDecreasing(DL)

----------------------------------------------------------------------------
(* C4 *)

\* the values a query can return in the current state
Requery(op, a, a2) ==
    CASE op = "z2Dc"     -> z2Dc(a)
      [] op = "z2DL"     -> z2DL(a)
      [] op = "DL2z"     -> DL2z(a)
      [] op = "z2E"      -> {z2E(a)}
      [] op = "dDcdz"    -> {dDcdz(a, a2 = 1)}
      [] op = "dVcdz"    -> dVcdz(a, a2)
      [] op = "logdVcdz" -> logdVcdz(a, a2)
      [] OTHER           -> {}

\* a step of the main thread outside extend: a query or closed-form call
QueryStep == obj = "live" /\ fr.pc = "idle" /\ th'[Main].pc = "idle"

\* z2Dc(0) = 0 and z2DL(0) = 0
SeedQueries == z2Dc(0) = {0} /\ z2DL(0) = {0}

----------------------------------------------------------------------------
(* C5 *)

\* C5, as stated for the Hubble rate: no object exists with Ho <= 0
C5_AsStated == obj = "live" => Ho > 0

\* the rest of C5: a nonzero curvature raises and leaves no object, a zero
\* Hubble rate raises, and a constructed object has zero curvature and the
\* single seed sample until extend is called
C5_Curvature ==
    /\ obj = "live" => OmegaKappa = 0
    /\ (obj = "none" /\ raised # "") => raised \in {"AssertionError", "ZeroDivisionError"}

----------------------------------------------------------------------------
(* C6 *)

\* the main thread is between calls on a table of a valid parameter set that
\* grew with positive steps only, without overflow
GoodTable == WellFormed /\ fr.pc = "idle"

\* the line through (x0, f0) and (x1, f1), at x
Lerp(x, x0, x1, f0, f1) == Add(f0, Mul(Div(Sub(x, x0), Sub(x1, x0)), Sub(f1, f0)))

\* xp[k] <= x < xp[k + 1]
InSegment(x, xp, k) == Leq(xp[k], x) /\ Less(x, xp[k + 1])

\* interpolating fp over xp at x clamps outside the knots, is exact at a knot
\* and linear between two neighbouring knots
ClampsAndInterpolates(x, xp, fp) ==
    /\ Greater(x, Last(xp)) => Interp(x, xp, fp) = {Last(fp)}
    /\ Less(x, xp[1]) => Interp(x, xp, fp) = {fp[1]}
    /\ \A k \in 1..Len(xp) : x = xp[k] => Interp(x, xp, fp) = {fp[k]}
    /\ \A k \in 1..(Len(xp) - 1) :
          InSegment(x, xp, k)
              => Interp(x, xp, fp) = {Lerp(x, xp[k], xp[k + 1], fp[k], fp[k + 1])}

\* C6, as stated for z below 0: between calls, on any table, z2Dc and z2DL
\* return the seed value 0
C6_AsStated ==
    (Valid /\ fr.pc = "idle")
        => \A x \in QueryZ : Less(x, 0) => (z2Dc(x) = {0} /\ z2DL(x) = {0})

\* C6, amended: on a table of a valid parameter set grown with positive steps
\* only and no overflow of (1+z)^4, no query raises; z2Dc and z2DL clamp to Dc_last and DL_last /
\* unit_scale above z_last and to 0 below 0; DL2z clamps to z_last above
\* DL_last and to 0 below 0; inside the range each query is the linear
\* interpolation between the two neighbouring samples and exact at a sample
C6_Clamps ==
    GoodTable =>
        /\ raised = ""
        /\ \A x \in QueryZ \cup {self_z[k] : k \in 1..Len(self_z)} :
              /\ ClampsAndInterpolates(x, self_z, self_Dc)
              /\ ClampsAndInterpolates(x, self_z, DL)
              /\ z2Dc(x) = Interp(x, self_z, self_Dc)
              /\ z2DL(x) = {Div(v, unit_mod) : v \in Interp(x, self_z, DL)}
              /\ Less(x, 0) => (z2Dc(x) = {0} /\ z2DL(x) = {0})
        /\ \A d \in QueryDL :
              /\ ClampsAndInterpolates(Mul(d, unit_mod), DL, self_z)
              /\ DL2z(d) = Interp(Mul(d, unit_mod), DL, self_z)
              /\ Less(Mul(d, unit_mod), 0) => DL2z(d) = {0}
        /\ \A k \in 1..Len(self_z) : ClampsAndInterpolates(DL[k], DL, self_z)
        /\ (ret.op \in {"z2Dc", "z2DL"} /\ Greater(ret.arg, Last(self_z)))
              => ret.val = (IF ret.op = "z2Dc" THEN Last(self_Dc)
                            ELSE Div(Last(DL), unit_mod))
        /\ (ret.op = "DL2z" /\ Greater(Mul(ret.arg, unit_mod), Last(DL)))
              => ret.val = Last(self_z)

\* a query above the last sample of a grown table has returned the last value
C6_Witness ==
    /\ GoodTable
    /\ Len(self_z) >= 3
    /\ unit_mod = MPC_CGS
    /\ ret.op = "z2DL" /\ Greater(ret.arg, Last(self_z))
    /\ ret.val > 0

----------------------------------------------------------------------------
(* C7 *)

\* the width of the widest segment of the table
MaxStep == 
    LET w == {Sub(self_z[k + 1], self_z[k]) : k \in 1..(Len(self_z) - 1)}
    IN  IF w = {} THEN 0 ELSE CHOOSE m \in w : \A v \in w : Leq(v, m)

\* the width of the segments of the table that hold x
StepAt(x) ==
    {Sub(self_z[k + 1], self_z[k]) :
        k \in {j \in 1..(Len(self_z) - 1) : Leq(self_z[j], x) /\ Leq(x, self_z[j + 1])}}

\* |a - b| < w for finite a, b
Within(a, b, w) == IsFin(a) /\ IsFin(b) /\ Abs(a - b) < w

\* the error one rounding of a distance leaves in the redshift
RoundTol == SCALE \div 25

\* x is in the tabulated range
InRange(x) == Leq(0, x) /\ Leq(x, Last(self_z))

\* DL2z(z2DL(x)) for every value the two lookups can return
RoundTrip(x) == UNION {DL2z(v) : v \in z2DL(x)}

\* C7, as stated: for any table reached by extend calls and any z with
\* 0 <= z <= z_last, DL2z(z2DL(z)) differs from z by less than the step
C7_AsStated ==
    (Valid /\ fr.pc = "idle" /\ Len(self_z) > 1
       /\ ret.op = "DL2z" /\ ~IsNaN(ret.from) /\ InRange(ret.from))
        => Within(ret.val, ret.from, MaxStep)

\* C7, amended: on a table of a valid parameter set grown with positive steps
\* only and no overflow of (1+z)^4, and any z with 0 <= z <= z_last, DL2z(z2DL(z)) differs from z by less
\* than the step of the segment holding z, and at a tabulated z_i by no more
\* than the rounding of the unit conversion (exactly, for distance_unit cm)
C7_RoundTrip ==
    GoodTable =>
        /\ \A x \in QueryZ : \A w \in RoundTrip(x), st \in StepAt(x) :
              InRange(x) => Within(w, x, st)
        /\ \A k \in 1..Len(self_z) : \A w \in RoundTrip(self_z[k]) :
              /\ Within(w, self_z[k], RoundTol + 1)
              /\ unit_mod = One => w = self_z[k]
        /\ (ret.op = "DL2z" /\ ~IsNaN(ret.from) /\ InRange(ret.from))
              => \A st \in StepAt(ret.from) : Within(ret.val, ret.from, st)

\* DL2z has returned for the z2DL of a z strictly inside a segment, in Mpc
C7_Witness ==
    /\ GoodTable
    /\ unit_mod = MPC_CGS
    /\ Len(self_z) >= 3
    /\ ret.op = "DL2z" /\ ~IsNaN(ret.from)
    /\ Less(0, ret.from) /\ Less(ret.from, Last(self_z))
    /\ \A k \in 1..Len(self_z) : self_z[k] # ret.from

----------------------------------------------------------------------------
(* C8 *)

\* the tolerance of a comparison of logarithms
LogTol == SCALE \div 4

\* logdVcdz returned the natural log of what dVcdz returns for the same input
LogMatchesLinear ==
    \A v \in dVcdz(ret.arg, ret.arg2) :
        (IsFin(v) /\ v > 0) => Within(ret.val, Ln(v), LogTol)

\* C8, as stated: for either distance_unit, every z and every Dc > 0,
\* logdVcdz(z, Dc) is the natural log of dVcdz(z, Dc)
C8_AsStated ==
    (Valid /\ ret.op = "logdVcdz" /\ ret.arg2 > 0) => LogMatchesLinear

\* the same for the objects built with distance_unit cm
C8_BaseUnitOnly ==
    (Valid /\ unit_mod = One /\ ret.op = "logdVcdz" /\ ret.arg2 > 0)
        => LogMatchesLinear

----------------------------------------------------------------------------
(* C9 *)

\* the largest step a caller passes
MaxDz == CHOOSE m \in DzSet : \A d \in DzSet : d <= m

\* what the trapezoid sums of c/Ho/E cannot exceed when OmegaMatter > 0:
\* E(z) >= sqrt(OmegaMatter) * (1+z)^(3/2), whose integral is 2/sqrt(OmegaMatter)
DcSup == Mul(c_over_Ho, Add(Div(2 * One, Sqrt(OmegaMatter)), Div(MaxDz, 2 * One)))

\* and the sums of 4 pi Dc^2 c/Ho/E
VcSup == Mul(FourPi, Pow3(DcSup))

\* the samples appended by the call in progress
Appended == Len(self_z) - fr.n0

\* the call in progress has max_z as its only bound and a positive step
MaxZCall == fr.pc # "idle" /\ OnlyMaxZ(fr) /\ fr.dz > 0

\* the call in progress has an unmet max_z and a step that is not positive
StuckCall ==
    fr.pc # "idle" /\ fr.dz <= 0 /\ fr.max_z # NInf /\ Less(self_z[fr.n0], fr.max_z)

\* the call in progress has a max_Dc or max_Vc above what the sums converge to
BeyondCall ==
    /\ fr.pc # "idle" /\ WellFormed /\ OmegaMatter > 0
    /\ Greater(fr.max_Dc, DcSup) \/ Greater(fr.max_Vc, VcSup)

\* no sample of the table reaches the call's max_Dc, or none its max_Vc
NeverReached ==
    \/ fr.max_Dc # NInf /\ \A i \in 1..Len(self_Dc) : ~Geq(self_Dc[i], fr.max_Dc)
    \/ fr.max_Vc # NInf /\ \A i \in 1..Len(self_Vc) : ~Geq(self_Vc[i], fr.max_Vc)

TestsLastSample ==
    fr.pc = "L68" =>
        /\ EqualLengths
        /\ fr.z = Last(self_z) /\ fr.Dc = Last(self_Dc) /\ fr.Vc = Last(self_Vc)
        /\ fr.DL = Mul(fr.Dc, Add(One, fr.z))

\* a call with max_z only and dz > 0 has appended k samples dz apart, the
\* first k - 1 of them below max_z, and at its return the k-th is not
CountsSteps ==
    MaxZCall =>
        /\ Last(self_z) = self_z[fr.n0] + Appended * fr.dz
        /\ Appended >= 1 => (Appended - 1) * fr.dz < fr.max_z - self_z[fr.n0]
        /\ Returning(Main) => Appended * fr.dz >= fr.max_z - self_z[fr.n0]

\* the table has room for the samples a call with max_z only still needs
HasRoom == (MaxLen - Len(self_z)) * fr.dz >= fr.max_z - Last(self_z)

----------------------------------------------------------------------------
(* C10 *)

\* where the main thread's call stands between its three rebindings
AtZ  == fr.pc \in {"idle", "L63", "L64", "L65", "L68", "L69", "L80", "L80s"}
AtDc == fr.pc \in {"L81", "L81s"}
AtVc == fr.pc \in {"L82", "L82s"}

\* every thread is outside extend
AllIdle == \A t \in Threads : th[t].pc = "idle"

\* C10: extend rebinds z, then Dc, then Vc in separate steps.  While the main
\* thread is the only caller of extend, the columns have equal length between
\* its calls and up to the rebinding of z, z is one longer than Dc and Vc
\* until Dc is rebound, and z and Dc are one longer than Vc until Vc is
\* rebound; the table stays increasing in z; and a query of another thread
\* reads columns of different length only between those rebindings
C10_NotAtomic ==
    callers \subseteq {Main} =>
        /\ AtZ => EqualLengths
        /\ AtDc => (Len(self_z) = Len(self_Dc) + 1 /\ Len(self_Dc) = Len(self_Vc))
        /\ AtVc => (Len(self_z) = Len(self_Dc) /\ Len(self_Dc) = Len(self_Vc) + 1)
        /\ StrictlyIncreasing(self_z)
        /\ fr.pc = "L68" => fr.z = Last(self_z)
        /\ ~torn => raised # "ValueError"

\* a query has read z one longer than Dc during an extend, and two
\* interleaved calls of extend have returned leaving a table that repeats a z
\* or has columns of different lengths
C10_Witness ==
    /\ torn
    /\ callers = Threads
    /\ AllIdle
    /\ ~EqualLengths \/ ~StrictlyIncreasing(self_z)

====
